---- MODULE Spec2Model ----
(***************************************************************************)
(* Model of @uniweb/semantic-parser: the Sequence Builder                  *)
(* (src/processors/sequence.js) and the Group Segmenter / Structurer /     *)
(* Main-Item Resolver (src/processors/groups.js).                          *)
(*                                                                         *)
(* A run of parseContent (src/index.js) is followed from the document to    *)
(* the returned entity in SpecDoc, one paragraph or heading through the    *)
(* link patterns in SpecSeq, one marked text run in SpecText, and          *)
(* processGroups on a flat sequence step by step in Spec and SpecDeep.     *)
(*                                                                         *)
(* Strings of the program are modelled by naturals: EMPTY (0) is the empty *)
(* string "" (falsy in JavaScript); a positive number is a non-empty text. *)
(* 1-based indices are used where the JavaScript uses 0-based ones.        *)
(***************************************************************************)
EXTENDS Integers, Sequences, FiniteSets, TLC

\* ------------------------------------------------------------------ bounds
MaxLen == 4
MaxLevel == 3
MaxInline == 3
MaxDocLen == 2
MaxImgs == 2
MaxItems == 1

\* ------------------------------------------------------ program constants
\* the empty string "" of the header slots
EMPTY == 0
\* metadata.level before any heading was seen (null)
NULL == 0
\* a text made of white space only: trim() turns it into ""
BLANK == -1
\* texts from JsonTextBase on are valid JSON (JSON.parse does not throw)
JsonTextBase == 100
\* the key of a card without cardType ('card')
defaultCardType == 10
\* the link target "_blank"
NewTab == 8

VARIABLES
    pc,               \* position of the run in the pipeline
    sequence,         \* processGroups: the flat sequence
    i,                \* splitBySlices: loop index
    groups,           \* splitBySlices: groups closed so far
    currentGroup,     \* splitBySlices: the open group
    g,                \* processGroups: index of the group being structured
    e,                \* processGroupContent: loop index
    header,           \* processGroupContent: header accumulator
    body,             \* processGroupContent: body accumulator
    metadata,         \* processGroupContent: metadata accumulator
    processedGroups,  \* processGroups: structured groups
    result,           \* processGroups: the returned flat entity
    node,             \* processNode: the child node handed to createSequenceElement
    doc,              \* parseContent: the value passed as document
    options,          \* parseContent: the parsing options
    legacyResult      \* legacy: the returned nested structure

vars == <<pc, sequence, i, groups, currentGroup, g, e, header, body,
          metadata, processedGroups, result, node, doc, options, legacyResult>>

\* ------------------------------------------------------ sequence elements
Levels == 1..MaxLevel

\* shapes of the sequence elements the grouping stage distinguishes
ElementShapes ==
    [type : {"heading"}, level : Levels, role : {"none"}, hasText : BOOLEAN]
    \cup [type : {"paragraph"}, level : {0}, role : {"none"}, hasText : {TRUE}]
    \cup [type : {"image"}, level : {0}, role : {"none", "banner"}, hasText : {FALSE}]
    \cup [type : {"divider"}, level : {0}, role : {"none"}, hasText : {FALSE}]

\* the element of shape s at document position p: its text (when it has one)
\* and its attrs are identified by the position
MkElement(s, p) ==
    [type |-> s.type, level |-> s.level, role |-> s.role,
     text |-> IF s.hasText THEN p ELSE EMPTY, attrs |-> p, children |-> <<>>]

\* ----------------------------------------------------- processGroupContent
EmptyHeader == [pretitle |-> EMPTY, title |-> EMPTY, subtitle |-> EMPTY, subtitle2 |-> EMPTY]

EmptyBody ==
    [imgs |-> <<>>, icons |-> <<>>, videos |-> <<>>, paragraphs |-> <<>>,
     links |-> <<>>, lists |-> <<>>, data |-> <<>>, quotes |-> <<>>,
     headings |-> <<>>]

EmptyMetadata == [level |-> NULL]

\* the comparison of the levels reversed
isPreTitleReversed(seq, k) ==
    /\ k + 1 <= Len(seq)
    /\ seq[k].type = "heading"
    /\ seq[k + 1].type = "heading"
    /\ seq[k].level < seq[k + 1].level

isPreTitle(seq, k) ==
    /\ k + 1 <= Len(seq)
    /\ seq[k].type = "heading"
    /\ seq[k + 1].type = "heading"
    /\ seq[k].level > seq[k + 1].level

\* a heading that finds all slots filled replaces subtitle2
assignHeaderOverwrite(h, text) ==
    IF h.title = EMPTY THEN [h EXCEPT !.title = text]
    ELSE IF h.subtitle = EMPTY THEN [h EXCEPT !.subtitle = text]
    ELSE [h EXCEPT !.subtitle2 = text]

\* the header after a heading's text was assigned to the first free slot
assignHeader(h, text) ==
    IF h.title = EMPTY THEN [h EXCEPT !.title = text]
    ELSE IF h.subtitle = EMPTY THEN [h EXCEPT !.subtitle = text]
    ELSE IF h.subtitle2 = EMPTY THEN [h EXCEPT !.subtitle2 = text]
    ELSE h

\* the overflow heading is put in front of body.headings (unshift)
collectHeadingFront(h, b, text) ==
    IF h.title # EMPTY /\ h.subtitle # EMPTY /\ h.subtitle2 # EMPTY
    THEN [b EXCEPT !.headings = <<text>> \o @]
    ELSE b

\* the body after a heading was processed: overflow goes to body.headings
collectHeading(h, b, text) ==
    IF h.title # EMPTY /\ h.subtitle # EMPTY /\ h.subtitle2 # EMPTY
    THEN [b EXCEPT !.headings = Append(@, text)]
    ELSE b

\* processInlineElements of groups.js: the icons and links among the inline
\* children of an element are pushed to the body
RECURSIVE pushInlineElements(_, _)
pushInlineElements(children, b) ==
    IF children = <<>> THEN b
    ELSE LET item == Head(children)
             b1 == IF item.type = "icon" THEN [b EXCEPT !.icons = Append(@, item.attrs)]
                   ELSE IF item.type = "link" THEN [b EXCEPT !.links = Append(@, item.attrs)]
                   ELSE b
         IN  pushInlineElements(Tail(children), b1)

\* body.data[key] = value: an earlier value under the key is replaced
setData(data, key, value) == (key :> value) @@ data

\* the card without its cardType
cardData(card) == [name |-> card.name]

\* the forEach of the card-group case: each card is appended to the array
\* stored under its card type
RECURSIVE pushCards(_, _)
pushCards(cards, data) ==
    IF cards = <<>> THEN data
    ELSE LET card == Head(cards)
             cardType == IF card.cardType # NULL THEN card.cardType ELSE defaultCardType
             d1 == IF cardType \in DOMAIN data THEN data ELSE setData(data, cardType, <<>>)
         IN  pushCards(Tail(cards), setData(d1, cardType, Append(d1[cardType], cardData(card))))

RECURSIVE processGroupContent(_)

\* the body after a non-heading element was processed
collectBody(b, element) ==
    CASE element.type = "list" ->
            [b EXCEPT !.lists = Append(@, [k \in 1..Len(element.children) |->
                                              processGroupContent(element.children[k]).body])]
      [] element.type = "paragraph" ->
            LET b1 == pushInlineElements(element.children, b)
            IN  IF element.text # EMPTY
                THEN [b1 EXCEPT !.paragraphs = Append(@, element.text)]
                ELSE b1
      [] element.type = "image" -> [b EXCEPT !.imgs = Append(@, element.attrs)]
      [] element.type = "link" ->
            LET b1 == IF "children" \in DOMAIN element
                      THEN pushInlineElements(element.children, b)
                      ELSE b
            IN  [b1 EXCEPT !.links = Append(@, element.attrs)]
      [] element.type = "blockquote" ->
            [b EXCEPT !.quotes = Append(@, processGroupContent(element.children).body)]
      [] element.type = "dataBlock" ->
            [b EXCEPT !.data = setData(@, element.tag, element.data)]
      [] element.type = "codeBlock" ->
            IF element.attrs.tag # NULL
            THEN [b EXCEPT !.data = setData(@, element.attrs.tag, element.text)]
            ELSE b
      [] element.type = "card-group" -> [b EXCEPT !.data = pushCards(element.cards, @)]
      [] OTHER -> b

\* whether the pretitle rule fires at position k
takesPretitle(elements, k, h) == isPreTitle(elements, k) /\ h.pretitle = EMPTY

\* the level of the group is updated by every heading
structureIterationLastLevel(elements, k, h, b, m) ==
    LET pre == takesPretitle(elements, k, h)
        h1 == IF pre THEN [h EXCEPT !.pretitle = elements[k].text] ELSE h
        j == IF pre THEN k + 1 ELSE k
        element == elements[j]
    IN  IF element.type = "heading"
        THEN [next |-> j + 1,
              header |-> assignHeader(h1, element.text),
              body |-> collectHeading(h1, pushInlineElements(element.children, b), element.text),
              metadata |-> [m EXCEPT !.level = element.level]]
        ELSE [next |-> j + 1, header |-> h1, body |-> collectBody(b, element), metadata |-> m]

\* one iteration of the loop of processGroupContent, started at index k
structureIteration(elements, k, h, b, m) ==
    LET pre == takesPretitle(elements, k, h)
        h1 == IF pre THEN [h EXCEPT !.pretitle = elements[k].text] ELSE h
        j == IF pre THEN k + 1 ELSE k
        element == elements[j]
    IN  IF element.type = "heading"
        THEN [next |-> j + 1,
              header |-> assignHeader(h1, element.text),
              body |-> collectHeading(h1, pushInlineElements(element.children, b), element.text),
              metadata |-> IF m.level = NULL THEN [m EXCEPT !.level = element.level] ELSE m]
        ELSE [next |-> j + 1, header |-> h1, body |-> collectBody(b, element), metadata |-> m]

\* the loop of processGroupContent from index k on, and the returned record
RECURSIVE structureLoop(_, _, _, _, _)
structureLoop(elements, k, h, b, m) ==
    IF k > Len(elements) THEN [header |-> h, body |-> b, metadata |-> m]
    ELSE LET r == structureIteration(elements, k, h, b, m)
         IN  structureLoop(elements, r.next, r.header, r.body, r.metadata)

processGroupContent(elements) ==
    structureLoop(elements, 1, EmptyHeader, EmptyBody, EmptyMetadata)

\* ---------------------------------------------------------- splitBySlices
\* a more important heading is absorbed at any length of the block
RECURSIVE readHeadingLoopAnyStep(_, _, _)
readHeadingLoopAnyStep(seq, k, elements) ==
    IF k > Len(seq) THEN elements
    ELSE LET element == seq[k]
             previousElement == elements[Len(elements)]
         IN  IF element.type # "heading" THEN elements
             ELSE IF element.level > previousElement.level
                  THEN readHeadingLoopAnyStep(seq, k + 1, Append(elements, element))
             ELSE IF element.level < previousElement.level
                  THEN readHeadingLoopAnyStep(seq, k + 1, Append(elements, element))
             ELSE elements

\* the loop of readHeadingGroup from index k on
RECURSIVE readHeadingLoop(_, _, _)
readHeadingLoop(seq, k, elements) ==
    IF k > Len(seq) THEN elements
    ELSE LET element == seq[k]
             previousElement == elements[Len(elements)]
         IN  IF element.type # "heading" THEN elements
             ELSE IF element.level > previousElement.level
                  THEN readHeadingLoop(seq, k + 1, Append(elements, element))
             ELSE IF Len(elements) = 1 /\ element.level < previousElement.level
                  THEN readHeadingLoop(seq, k + 1, Append(elements, element))
             ELSE elements

readHeadingGroup(seq, startIdx) == readHeadingLoop(seq, startIdx + 1, <<seq[startIdx]>>)

isBannerImage(seq, k) ==
    /\ k = 1
    /\ k + 1 <= Len(seq)
    /\ seq[k].type = "image"
    /\ (seq[k].role = "banner" \/ seq[k + 1].type = "heading")

\* the open group is pushed also when it is empty
closeGroupAlways(gs, cur) == Append(gs, cur)

\* a group of one element is not pushed
closeGroupOffByOne(gs, cur) == IF Len(cur) > 1 THEN Append(gs, cur) ELSE gs

\* the closed groups after the open group was closed (if it has content)
closeGroup(gs, cur) == IF Len(cur) > 0 THEN Append(gs, cur) ELSE gs

\* a heading never closes the open group
headingClosesNever(seq, k, cur) == FALSE

\* the banner merge is not limited to the heading at the second position
headingClosesBannerAnywhere(seq, k, cur) == Len(cur) > 0 /\ ~isBannerImage(seq, 1)

\* whether a heading at index k closes the open group
headingCloses(seq, k, cur) == Len(cur) > 0 /\ ~(k = 2 /\ isBannerImage(seq, 1))

\* one iteration of the loop of splitBySlices at index k
splitIteration(seq, k, gs, cur) ==
    LET element == seq[k] IN
    IF element.type = "divider"
    THEN [next |-> k + 1, groups |-> closeGroup(gs, cur), currentGroup |-> <<>>]
    ELSE IF element.type = "heading"
    THEN LET closes == headingCloses(seq, k, cur)
             headingBlock == readHeadingGroup(seq, k)
         IN  [next |-> k + Len(headingBlock),
              groups |-> IF closes THEN closeGroup(gs, cur) ELSE gs,
              currentGroup |-> (IF closes THEN <<>> ELSE cur) \o headingBlock]
    ELSE [next |-> k + 1, groups |-> gs, currentGroup |-> Append(cur, element)]

\* the loop of splitBySlices from index k on, and the final push
RECURSIVE splitLoop(_, _, _, _)
splitLoop(seq, k, gs, cur) ==
    IF k > Len(seq) THEN closeGroup(gs, cur)
    ELSE LET r == splitIteration(seq, k, gs, cur)
         IN  splitLoop(seq, r.next, r.groups, r.currentGroup)

splitBySlices(seq) == splitLoop(seq, 1, <<>>, <<>>)

\* ---------------------------------------------------------- processGroups
\* equal levels make the first group main
identifyMainContentOrEqual(pgs) ==
    IF Len(pgs) = 0 THEN FALSE
    ELSE IF Len(pgs) = 1 THEN TRUE
    ELSE LET first == pgs[1].metadata.level
             second == pgs[2].metadata.level
         IN  IF first # NULL THEN (second = NULL \/ first <= second) ELSE FALSE

identifyMainContent(pgs) ==
    IF Len(pgs) = 0 THEN FALSE
    ELSE IF Len(pgs) = 1 THEN TRUE
    ELSE LET first == pgs[1].metadata.level
             second == pgs[2].metadata.level
         IN  IF first # NULL THEN (second = NULL \/ first < second) ELSE FALSE

flattenGroup(group) ==
    [title |-> group.header.title, pretitle |-> group.header.pretitle,
     subtitle |-> group.header.subtitle, subtitle2 |-> group.header.subtitle2,
     paragraphs |-> group.body.paragraphs, links |-> group.body.links,
     imgs |-> group.body.imgs, icons |-> group.body.icons,
     lists |-> group.body.lists, videos |-> group.body.videos,
     data |-> group.body.data, quotes |-> group.body.quotes,
     headings |-> group.body.headings]

EmptyFlat == flattenGroup([header |-> EmptyHeader, body |-> EmptyBody])

\* the flat entity with its items
withItems(flat, items) ==
    [title |-> flat.title, pretitle |-> flat.pretitle,
     subtitle |-> flat.subtitle, subtitle2 |-> flat.subtitle2,
     paragraphs |-> flat.paragraphs, links |-> flat.links,
     imgs |-> flat.imgs, icons |-> flat.icons,
     lists |-> flat.lists, videos |-> flat.videos,
     data |-> flat.data, quotes |-> flat.quotes,
     headings |-> flat.headings, items |-> items]

\* the first group is left out of the items although it is not main
itemGroupsOfAlwaysRest(pgs) == IF Len(pgs) > 0 THEN Tail(pgs) ELSE pgs

\* the groups that become items
itemGroupsOf(pgs) == IF identifyMainContent(pgs) THEN Tail(pgs) ELSE pgs

resolveGroups(pgs) ==
    LET flatMain == IF identifyMainContent(pgs) THEN flattenGroup(pgs[1]) ELSE EmptyFlat
        itemGroups == itemGroupsOf(pgs)
    IN  withItems(flatMain, [n \in 1..Len(itemGroups) |-> flattenGroup(itemGroups[n])])

\* the empty structure without its items
EmptyEntityNoItems == EmptyFlat

\* the flat empty structure returned for an empty sequence
EmptyEntity == withItems(EmptyFlat, <<>>)

\* ------------------------------------------------------- document nodes
\* hrefs of link marks: 1 stands for "/about", 2 for "/report.pdf"
Hrefs == {1, 2}

\* the marks of a text run
linkMark(h) == [type |-> "link", attrs |-> TRUE, href |-> h, target |-> NULL, color |-> NULL]
plainMark(t) == [type |-> t, attrs |-> TRUE, href |-> NULL, target |-> NULL, color |-> NULL]

\* a link mark with a target attribute
linkMarkTo(h, t) == [linkMark(h) EXCEPT !.target = t]

\* an HTML string is modelled by its sequence of tokens
Tok(t, v, w, d) == [t |-> t, v |-> v, w |-> w, d |-> d]

\* attrs.data of a block node: no data (undefined), or the pre-parsed data v
NoData == <<>>
dataValue(v) == <<Tok("data", v, 0, FALSE)>>

\* a textStyle mark with the color c
colorMark(c) == [type |-> "textStyle", attrs |-> TRUE, href |-> NULL, target |-> NULL, color |-> c]

\* a mark that has no attrs object
bareMark(t) == [type |-> t, attrs |-> FALSE, href |-> NULL, target |-> NULL, color |-> NULL]

\* the attrs of a block node (absent entries are NULL); NoAttrs: the node has
\* no attrs object
nodeAttrs(level, tag, data, language) ==
    [present |-> TRUE, level |-> level, tag |-> tag, data |-> data, language |-> language]

NoAttrs == [present |-> FALSE, level |-> NULL, tag |-> NULL, data |-> NoData, language |-> "none"]

\* shapes of the inline items of a paragraph or heading node
InlineShapes ==
    [type : {"UniwebIcon"}, blank : {FALSE}, marks : {<<>>}]
    \cup [type : {"hardBreak"}, blank : {FALSE}, marks : {<<>>}]
    \cup [type : {"text"}, blank : {FALSE},
          marks : {<<>>} \cup {<<linkMark(h)>> : h \in Hrefs}
                  \cup {<<plainMark("bold"), linkMark(1)>>}
                  \cup {<<linkMarkTo(1, NewTab)>>}]
    \cup [type : {"text"}, blank : {TRUE}, marks : {<<>>, <<linkMark(1)>>}]

\* the inline item of shape s at position p of the content: the text of a run
\* and the attrs of an icon are identified by the position
MkInline(s, p) ==
    [type |-> s.type,
     text |-> IF s.type = "text" THEN (IF s.blank THEN BLANK ELSE p) ELSE EMPTY,
     marks |-> s.marks,
     attrs |-> [svg |-> p, extra |-> p]]

NodeShapes == [type : {"paragraph"}, level : {NULL}] \cup [type : {"heading"}, level : Levels]

NoNode == [type |-> "doc", attrs |-> NoAttrs, hasContent |-> TRUE, content |-> <<>>]

\* the document and the options of a run that starts after parseContent
NoDoc == [kind |-> "object", hasContent |-> TRUE, content |-> <<>>]
NoOptions == [parseCodeAsJson |-> FALSE]

\* a text run of a document
run(t, marks) ==
    [type |-> "text", text |-> t, marks |-> marks, attrs |-> [svg |-> NULL, extra |-> NULL]]

\* a UniwebIcon item of a document
icon(p) ==
    [type |-> "UniwebIcon", text |-> EMPTY, marks |-> <<>>, attrs |-> [svg |-> p, extra |-> p]]

\* a block node with a content array
block(type, attrs, content) ==
    [type |-> type, attrs |-> attrs, hasContent |-> TRUE, content |-> content]

\* a block node without content
bare(type, attrs) == [type |-> type, attrs |-> attrs, hasContent |-> FALSE, content |-> <<>>]

para(t) == block("paragraph", NoAttrs, <<run(t, <<>>)>>)
head(level, t) == block("heading", nodeAttrs(level, NULL, NoData, "none"), <<run(t, <<>>)>>)
code(t, tag, data, language) == block("codeBlock", nodeAttrs(NULL, tag, data, language), <<run(t, <<>>)>>)
cardNode(cardType, name) ==
    bare("card", [present |-> TRUE, cardType |-> cardType, name |-> name, hidden |-> FALSE])

\* shapes of the child nodes of a document
DocShapes ==
    {"p", "pLink", "pNoHref", "pNoMarkAttrs", "link", "h1", "h2", "hNoAttrs",
     "list", "listNoContent", "quote", "quoteP",
     "code", "codeJson", "codeTag", "codeTagJson", "codeTagBad", "codeTagData",
     "data1", "data2", "dataNoAttrs", "unknown", "rule", "cards",
     "iconLink", "iconBurst", "hLink", "hStyled"}

\* the child node of shape s at document position p: its texts and data are
\* identified by the position
MkNode(s, p) ==
    CASE s = "p" -> para(p)
      [] s = "pLink" ->
            block("paragraph", NoAttrs, <<run(p, <<>>), run(p + 10, <<linkMark(1)>>)>>)
      [] s = "pNoHref" ->
            block("paragraph", NoAttrs, <<run(p, <<>>), run(p + 10, <<linkMark(NULL)>>)>>)
      [] s = "pNoMarkAttrs" ->
            block("paragraph", NoAttrs, <<run(p, <<>>), run(p + 10, <<bareMark("link")>>)>>)
      [] s = "link" -> block("paragraph", NoAttrs, <<run(p, <<linkMark(1)>>)>>)
      [] s = "h1" -> head(1, p)
      [] s = "h2" -> head(2, p)
      [] s = "hNoAttrs" -> block("heading", NoAttrs, <<run(p, <<>>)>>)
      [] s = "list" ->
            block("bulletList", NoAttrs,
                  <<block("listItem", NoAttrs, <<para(p + 10)>>),
                    block("listItem", NoAttrs, <<head(2, p + 20), para(p + 30)>>),
                    bare("listItem", NoAttrs)>>)
      [] s = "listNoContent" -> bare("bulletList", NoAttrs)
      [] s = "quote" -> block("blockquote", NoAttrs, <<head(2, p + 10), para(p + 20)>>)
      [] s = "quoteP" -> block("blockquote", NoAttrs, <<para(p + 10)>>)
      [] s = "code" -> code(p, NULL, NoData, "none")
      [] s = "codeJson" -> code(JsonTextBase + p, NULL, NoData, "json")
      [] s = "codeTag" -> code(p, 1, NoData, "none")
      [] s = "codeTagJson" -> code(JsonTextBase + p, 1, NoData, "json")
      [] s = "codeTagBad" -> code(p, 1, NoData, "json")
      [] s = "codeTagData" -> code(p, 1, dataValue(p + 40), "json")
      [] s = "data1" -> bare("dataBlock", nodeAttrs(NULL, 1, dataValue(p + 50), "none"))
      [] s = "data2" -> bare("dataBlock", nodeAttrs(NULL, 2, dataValue(p + 50), "none"))
      [] s = "dataNoAttrs" -> bare("dataBlock", NoAttrs)
      [] s = "unknown" -> block("callout", NoAttrs, <<run(p, <<>>)>>)
      [] s = "rule" -> bare("horizontalRule", NoAttrs)
      [] s = "cards" ->
            block("card-group", NoAttrs,
                  <<cardNode(11, p + 60), cardNode(NULL, p + 70), para(p + 80)>>)
      [] s = "iconLink" ->
            block("paragraph", NoAttrs, <<icon(p + 10), run(p, <<linkMark(1)>>)>>)
      [] s = "iconBurst" ->
            block("paragraph", NoAttrs,
                  <<icon(p + 10), run(p, <<linkMark(1)>>),
                    icon(p + 20), run(p + 30, <<linkMark(2)>>)>>)
      [] s = "hLink" ->
            block("heading", nodeAttrs(1, NULL, NoData, "none"), <<run(p, <<linkMark(1)>>)>>)
      [] s = "hStyled" ->
            block("heading", nodeAttrs(1, NULL, NoData, "none"),
                  <<run(p, <<linkMark(1)>>), run(p + 10, <<plainMark("bold"), linkMark(1)>>)>>)

\* the values parseContent can be called with
DocKinds == {"null", "undefined", "number", "string", "object"}

\* ------------------------------------------------------------ sequence.js
\* String.prototype.trim on a modelled text
trim(text) == IF text = BLANK THEN EMPTY ELSE text

hasMark(marks, t) == \E k \in 1..Len(marks) : marks[k].type = t

\* Array.prototype.find: the first mark of type t
findMark(marks, t) == marks[CHOOSE k \in 1..Len(marks) :
                              /\ marks[k].type = t
                              /\ \A l \in 1..(k - 1) : marks[l].type # t]

parseUniwebIcon(itemAttrs) == [svg |-> itemAttrs.svg]

\* iconBefore / iconAfter when the paragraph has none (null)
NoIcon == [svg |-> NULL]

\* the {href, label} record of a link
linkAttrs(href, label) == [href |-> href, label |-> label]

\* the inline child lifted from one inline item (none for the other items)
inlineChild(item) ==
    IF item.type = "UniwebIcon"
    THEN <<[type |-> "icon", attrs |-> parseUniwebIcon(item.attrs)]>>
    ELSE IF item.type = "math-inline" THEN <<item>>
    ELSE IF item.type = "text" /\ hasMark(item.marks, "link")
    THEN <<[type |-> "link",
            attrs |-> linkAttrs(findMark(item.marks, "link").href, item.text)]>>
    ELSE <<>>

RECURSIVE processInlineElements(_)
processInlineElements(content) ==
    IF content = <<>> THEN <<>>
    ELSE inlineChild(Head(content)) \o processInlineElements(Tail(content))

\* the filter of isLink and isOnlyLinks: no icons, no white-space text
isSignificant(c) ==
    IF c.type = "UniwebIcon" THEN FALSE
    ELSE IF c.type = "text" THEN trim(c.text) # EMPTY
    ELSE TRUE

\* Array.prototype.findIndex of the text run with the given text (0: none)
findTextIndex(content, text) ==
    LET hits == {k \in 1..Len(content) : content[k].type = "text" /\ content[k].text = text}
    IN  IF hits = {} THEN 0 ELSE CHOOSE k \in hits : \A l \in hits : k <= l

\* the first icon before the link is kept
RECURSIVE scanIconBeforeFirst(_, _, _, _)
scanIconBeforeFirst(content, k, linkIndex, found) ==
    IF k > Len(content) THEN found
    ELSE IF content[k].type = "UniwebIcon" /\ k < linkIndex /\ found = NoIcon
    THEN scanIconBeforeFirst(content, k + 1, linkIndex, parseUniwebIcon(content[k].attrs))
    ELSE scanIconBeforeFirst(content, k + 1, linkIndex, found)

\* the loop of isLink over the icons: the last icon before the link
RECURSIVE scanIconBefore(_, _, _, _)
scanIconBefore(content, k, linkIndex, found) ==
    IF k > Len(content) THEN found
    ELSE IF content[k].type = "UniwebIcon" /\ k < linkIndex
    THEN scanIconBefore(content, k + 1, linkIndex, parseUniwebIcon(content[k].attrs))
    ELSE scanIconBefore(content, k + 1, linkIndex, found)

\* the loop of isLink over the icons: the first icon after the link
RECURSIVE scanIconAfter(_, _, _, _)
scanIconAfter(content, k, linkIndex, found) ==
    IF k > Len(content) THEN found
    ELSE IF content[k].type = "UniwebIcon" /\ k > linkIndex /\ found = NoIcon
    THEN scanIconAfter(content, k + 1, linkIndex, parseUniwebIcon(content[k].attrs))
    ELSE scanIconAfter(content, k + 1, linkIndex, found)

\* isLink: FALSE is modelled by the empty sequence, a match by <<attrs>>
isLink(item) ==
    IF item.type \notin {"paragraph", "heading"} THEN <<>>
    ELSE LET originalContent == item.content
             textContent == SelectSeq(originalContent, isSignificant)
         IN  IF Len(textContent) # 1 THEN <<>>
             ELSE LET contentItem == textContent[1] IN
                  IF ~hasMark(contentItem.marks, "link") THEN <<>>
                  ELSE LET mark == findMark(contentItem.marks, "link")
                           linkIndex == findTextIndex(originalContent, contentItem.text)
                       IN  <<[href |-> mark.href,
                              label |-> contentItem.text,
                              iconBefore |-> scanIconBefore(originalContent, 1, linkIndex, NoIcon),
                              iconAfter |-> scanIconAfter(originalContent, 1, linkIndex, NoIcon),
                              children |-> processInlineElements(originalContent)]>>

\* the href is read from the first mark of the run, whatever its type
onlyLinkElementFirstMark(c) ==
    [type |-> "link", attrs |-> linkAttrs(c.marks[1].href, c.text)]

\* the link element of one run of a links-only paragraph
onlyLinkElement(c) ==
    [type |-> "link", attrs |-> linkAttrs(findMark(c.marks, "link").href, c.text)]

\* the least number of significant runs of a links-only paragraph
minOnlyLinks == 2

\* isOnlyLinks: FALSE is modelled by the empty sequence
isOnlyLinks(item) ==
    IF item.type # "paragraph" THEN <<>>
    ELSE LET content == item.content
             textContent == SelectSeq(content, isSignificant)
         IN  IF Len(content) = 0 THEN <<>>
             ELSE IF Len(textContent) < minOnlyLinks THEN <<>>
             ELSE IF ~(\A k \in 1..Len(textContent) :
                          textContent[k].type = "text" /\ hasMark(textContent[k].marks, "link"))
             THEN <<>>
             ELSE [k \in 1..Len(textContent) |-> onlyLinkElement(textContent[k])]

\* ------------------------------------------------- getTextContent (HTML)

\* the target written when the link mark has none ("_self")
SELF == 9

\* hrefs whose extension is one of the file extensions (download links)
FileHrefs == {2}

wrap(open, str, close) == <<open>> \o str \o <<Tok(close, 0, 0, FALSE)>>

\* italic is applied before bold: <strong> is put around <em>
styledRunItalicFirst(curr) ==
    LET marks == curr.marks
        s0 == IF curr.text = EMPTY THEN <<>> ELSE <<Tok("text", curr.text, 0, FALSE)>>
        color == IF hasMark(marks, "textStyle") THEN findMark(marks, "textStyle").color ELSE NULL
        s1 == IF color # NULL THEN wrap(Tok("<span color>", color, 0, FALSE), s0, "</span>") ELSE s0
        s2 == IF hasMark(marks, "highlight")
              THEN wrap(Tok("<span highlight>", 0, 0, FALSE), s1, "</span>") ELSE s1
        s3 == IF hasMark(marks, "span")
              THEN wrap(Tok("<span>", 0, 0, FALSE), s2, "</span>") ELSE s2
        s4 == IF hasMark(marks, "italic")
              THEN wrap(Tok("<em>", 0, 0, FALSE), s3, "</em>") ELSE s3
        s5 == IF hasMark(marks, "bold")
              THEN wrap(Tok("<strong>", 0, 0, FALSE), s4, "</strong>") ELSE s4
    IN  IF hasMark(marks, "link")
        THEN LET lm == findMark(marks, "link")
                 target == IF lm.target # NULL THEN lm.target ELSE SELF
             IN  wrap(Tok("<a>", lm.href, target, lm.href \in FileHrefs), s5, "</a>")
        ELSE s5

\* the styled text of one text run: the marks are applied in a fixed order
styledRun(curr) ==
    LET marks == curr.marks
        s0 == IF curr.text = EMPTY THEN <<>> ELSE <<Tok("text", curr.text, 0, FALSE)>>
        color == IF hasMark(marks, "textStyle") THEN findMark(marks, "textStyle").color ELSE NULL
        s1 == IF color # NULL THEN wrap(Tok("<span color>", color, 0, FALSE), s0, "</span>") ELSE s0
        s2 == IF hasMark(marks, "highlight")
              THEN wrap(Tok("<span highlight>", 0, 0, FALSE), s1, "</span>") ELSE s1
        s3 == IF hasMark(marks, "span")
              THEN wrap(Tok("<span>", 0, 0, FALSE), s2, "</span>") ELSE s2
        s4 == IF hasMark(marks, "bold")
              THEN wrap(Tok("<strong>", 0, 0, FALSE), s3, "</strong>") ELSE s3
        s5 == IF hasMark(marks, "italic")
              THEN wrap(Tok("<em>", 0, 0, FALSE), s4, "</em>") ELSE s4
    IN  IF hasMark(marks, "link")
        THEN LET lm == findMark(marks, "link")
                 target == IF lm.target # NULL THEN lm.target ELSE SELF
             IN  wrap(Tok("<a>", lm.href, target, lm.href \in FileHrefs), s5, "</a>")
        ELSE s5

RECURSIVE reduceText(_)
reduceText(content) ==
    IF content = <<>> THEN <<>>
    ELSE LET curr == Head(content)
             piece == IF curr.type = "text" THEN styledRun(curr)
                      ELSE IF curr.type = "hardBreak" THEN <<Tok("<br>", 0, 0, FALSE)>>
                      ELSE <<>>
         IN  piece \o reduceText(Tail(content))

isBlankTok(tok) == tok.t = "text" /\ tok.v = BLANK

\* String.prototype.trim on a token sequence
RECURSIVE trimTokens(_)
trimTokens(str) ==
    IF str = <<>> THEN str
    ELSE IF isBlankTok(Head(str)) THEN trimTokens(Tail(str))
    ELSE IF isBlankTok(str[Len(str)]) THEN trimTokens(SubSeq(str, 1, Len(str) - 1))
    ELSE str

getTextContent(content) == trimTokens(reduceText(content))

\* ------------------------------------------------------------ isStyledLink
isNotIcon(c) == c.type # "UniwebIcon"

withoutLinkMarks(c) == [c EXCEPT !.marks = SelectSeq(@, LAMBDA m : m.type # "link")]

\* Array.prototype.find: the first link mark that has attrs (0: none)
findAttrsLink(marks) ==
    LET hits == {k \in 1..Len(marks) : marks[k].type = "link" /\ marks[k].attrs}
    IN  IF hits = {} THEN 0 ELSE CHOOSE k \in hits : \A l \in hits : k <= l

\* isStyledLink: FALSE is modelled by the empty sequence
isStyledLink(item) ==
    IF item.type \notin {"paragraph", "heading"} THEN <<>>
    ELSE IF Len(item.content) = 0 THEN <<>>
    ELSE LET content == SelectSeq(item.content, isNotIcon) IN
         IF Len(content) = 0 \/ findAttrsLink(content[1].marks) = 0 THEN <<>>
         ELSE LET firstLinkMark == content[1].marks[findAttrsLink(content[1].marks)] IN
              IF ~(\A k \in 1..Len(content) :
                      \E l \in 1..Len(content[k].marks) :
                          /\ content[k].marks[l].type = "link"
                          /\ content[k].marks[l].href = firstLinkMark.href)
              THEN <<>>
              ELSE LET cleanedContent == [k \in 1..Len(content) |-> withoutLinkMarks(content[k])]
                       textContent == getTextContent(cleanedContent)
                   IN  IF textContent = <<>> THEN <<>>
                       ELSE <<[type |-> "paragraph",
                               children |-> processInlineElements(item.content),
                               text |-> wrap(Tok("<a styled>", firstLinkMark.href,
                                                 firstLinkMark.target, FALSE),
                                             textContent, "</a>"),
                               attrs |-> item.attrs]>>

\* --------------------------------------------------- createSequenceElement
isJson(text) == Len(text) = 1 /\ text[1].t = "text" /\ text[1].v >= JsonTextBase

\* the value JSON.parse / parseYaml makes of a text
parsed(text) == <<Tok("parsed", text[1].v, 0, FALSE)>>

\* the code block's data: raw text unless the block is tagged
getCodeBlockData(text, attrs) ==
    IF ~attrs.present \/ attrs.tag = NULL THEN text
    ELSE IF attrs.data # NoData THEN attrs.data
    ELSE IF attrs.language \in {"json", "yaml", "yml"}
    THEN (IF isJson(text) THEN parsed(text) ELSE text)
    ELSE text

\* the card record made of the attrs of a card node
parseCardBlock(itemAttrs) == [cardType |-> itemAttrs.cardType, name |-> itemAttrs.name]

isShownCard(c) == c.type = "card" /\ ~c.attrs.hidden

\* a child of a list node that is a list item with content
isListItem(c) == c.type = "listItem" /\ c.hasContent

RECURSIVE processSequence(_)

\* the switch of createSequenceElement on the node type
dispatchNode(n) ==
    CASE n.type = "heading" ->
            <<[type |-> "heading", level |-> n.attrs.level,
               text |-> getTextContent(n.content),
               children |-> processInlineElements(n.content), attrs |-> n.attrs]>>
      [] n.type = "paragraph" ->
            <<[type |-> "paragraph", text |-> getTextContent(n.content),
               children |-> processInlineElements(n.content), attrs |-> n.attrs]>>
      [] n.type = "blockquote" ->
            <<[type |-> "blockquote", children |-> processSequence(n), attrs |-> n.attrs]>>
      [] n.type = "dataBlock" ->
            <<[type |-> "dataBlock", data |-> n.attrs.data, tag |-> n.attrs.tag]>>
      [] n.type = "codeBlock" ->
            <<[type |-> "codeBlock",
               text |-> getCodeBlockData(getTextContent(n.content), n.attrs),
               attrs |-> n.attrs]>>
      [] n.type \in {"bulletList", "orderedList"} ->
            LET listItems == SelectSeq(n.content, isListItem) IN
            <<[type |-> "list",
               style |-> IF n.type = "bulletList" THEN "bullet" ELSE "ordered",
               children |-> [k \in 1..Len(listItems) |-> processSequence(listItems[k])],
               attrs |-> n.attrs]>>
      [] n.type \in {"DividerBlock", "horizontalRule"} -> <<[type |-> "divider"]>>
      [] n.type = "card-group" ->
            LET cards == SelectSeq(n.content, isShownCard) IN
            <<[type |-> "card-group",
               cards |-> [k \in 1..Len(cards) |-> parseCardBlock(cards[k].attrs)]]>>
      [] OTHER -> <<[type |-> n.type, content |-> getTextContent(n.content)]>>

\* a heading node is emitted as a heading element whatever its content
createSequenceElementHeadingFirst(n) ==
    LET linkVal == isLink(n)
        multipleLinks == isOnlyLinks(n)
        styledLink == isStyledLink(n)
    IN  IF n.type = "heading" THEN dispatchNode(n)
        ELSE IF linkVal # <<>> THEN <<[type |-> "link", attrs |-> linkVal[1]]>>
        ELSE IF multipleLinks # <<>> THEN multipleLinks
        ELSE IF styledLink # <<>> THEN styledLink
        ELSE dispatchNode(n)

\* the burst is tried after the styled link
createSequenceElementBurstLast(n) ==
    LET linkVal == isLink(n)
        multipleLinks == isOnlyLinks(n)
        styledLink == isStyledLink(n)
    IN  IF linkVal # <<>> THEN <<[type |-> "link", attrs |-> linkVal[1]]>>
        ELSE IF styledLink # <<>> THEN styledLink
        ELSE IF multipleLinks # <<>> THEN multipleLinks
        ELSE dispatchNode(n)

\* the styled link is tried before the single link and the burst
createSequenceElementStyledFirst(n) ==
    LET linkVal == isLink(n)
        multipleLinks == isOnlyLinks(n)
        styledLink == isStyledLink(n)
    IN  IF styledLink # <<>> THEN styledLink
        ELSE IF linkVal # <<>> THEN <<[type |-> "link", attrs |-> linkVal[1]]>>
        ELSE IF multipleLinks # <<>> THEN multipleLinks
        ELSE dispatchNode(n)

\* the elements processNode pushes for one child node
createSequenceElement(n) ==
    LET linkVal == isLink(n)
        multipleLinks == isOnlyLinks(n)
        styledLink == isStyledLink(n)
    IN  IF linkVal # <<>> THEN <<[type |-> "link", attrs |-> linkVal[1]]>>
        ELSE IF multipleLinks # <<>> THEN multipleLinks
        ELSE IF styledLink # <<>> THEN styledLink
        ELSE dispatchNode(n)

\* processNode: the elements of the children of a node, in order; a node
\* without a content array has none
RECURSIVE processNode(_)
processNode(content) ==
    IF content = <<>> THEN <<>>
    ELSE createSequenceElement(Head(content)) \o processNode(Tail(content))

processSequence(d) == IF d.hasContent THEN processNode(d.content) ELSE <<>>

\* getTextContent throws a TypeError at a linked run whose link mark has no
\* attrs (linkMark.attrs.href) or no href (href.split)
textContentThrows(content) ==
    \E k \in 1..Len(content) :
        /\ content[k].type = "text"
        /\ hasMark(content[k].marks, "link")
        /\ (~findMark(content[k].marks, "link").attrs
            \/ findMark(content[k].marks, "link").href = NULL)

RECURSIVE sequenceThrows(_)

\* whether the switch of createSequenceElement throws a TypeError
dispatchThrows(n) ==
    CASE n.type = "heading" -> ~n.attrs.present \/ textContentThrows(n.content)
      [] n.type = "paragraph" -> textContentThrows(n.content)
      [] n.type = "blockquote" -> sequenceThrows(n)
      [] n.type = "dataBlock" -> ~n.attrs.present
      [] n.type = "codeBlock" -> textContentThrows(n.content)
      [] n.type \in {"bulletList", "orderedList"} ->
            \/ ~n.hasContent
            \/ \E k \in 1..Len(n.content) : isListItem(n.content[k]) /\ sequenceThrows(n.content[k])
      [] n.type \in {"DividerBlock", "horizontalRule"} -> FALSE
      [] n.type = "card-group" -> FALSE
      [] OTHER -> textContentThrows(n.content)

\* whether createSequenceElement throws: a node that matches a link pattern
\* is returned before the switch
createThrows(n) ==
    IF isLink(n) # <<>> \/ isOnlyLinks(n) # <<>> \/ isStyledLink(n) # <<>> THEN FALSE
    ELSE dispatchThrows(n)

sequenceThrows(d) == d.hasContent /\ \E k \in 1..Len(d.content) : createThrows(d.content[k])

\* whether parseContent throws: null and undefined have no property content
parseThrows(d) == d.kind \in {"null", "undefined"} \/ sequenceThrows(d)

\* ------------------------------------------------ the texts in the groups
\* The group stage copies the texts and tests them for emptiness only: there a
\* text is identified by the number of its first run (EMPTY for "").
textKey(str) ==
    IF str = <<>> THEN EMPTY
    ELSE LET runs == {k \in 1..Len(str) : str[k].t = "text"}
         IN  IF runs = {} THEN Len(str)
             ELSE str[CHOOSE k \in runs : \A l \in runs : k <= l].v

RECURSIVE groupInput(_)
groupElement(el) ==
    CASE el.type \in {"heading", "paragraph"} -> [el EXCEPT !.text = textKey(@)]
      [] el.type = "blockquote" -> [el EXCEPT !.children = groupInput(@)]
      [] el.type = "list" ->
            [el EXCEPT !.children = [k \in 1..Len(el.children) |-> groupInput(el.children[k])]]
      [] OTHER -> el

\* the sequence as the group stage reads it
groupInput(seq) == [k \in 1..Len(seq) |-> groupElement(seq[k])]

\* processGroups at once
processGroups(seq) ==
    IF Len(seq) = 0 THEN EmptyEntity
    ELSE LET gs == splitBySlices(seq)
         IN  resolveGroups([n \in 1..Len(gs) |-> processGroupContent(gs[n])])

\* ----------------------------------------------------------------- legacy
\* the roles of the images of a parsed entity ("none": the image has no role)
ImageRoles == {"banner", "content", "none"}

MkImage(role, p) == [role |-> role, src |-> p]

\* undefined as banner
NoImage == [role |-> "undefined", src |-> NULL]

\* the structure legacy has not returned yet
NoLegacy == [main |-> NULL, items |-> <<>>]

\* first of helpers.js: the first member of an array, undefined when empty
first(arr) == IF Len(arr) > 0 THEN arr[1] ELSE NULL

\* the images after the callback of imgs.filter ran on each of them: it
\* assigns item.role = "banner" and returns that string, which is truthy
filterCallback(imgs) == [k \in 1..Len(imgs) |-> [imgs[k] EXCEPT !.role = "banner"]]

\* transformToNested(content): the returned record
transformToNested(content) ==
    LET imgs == filterCallback(content.imgs)
        kept == imgs
        banner == IF Len(kept) > 0 THEN kept[1]
                  ELSE IF Len(imgs) > 0 THEN imgs[1] ELSE NoImage
    IN  [header |-> [title |-> content.title, subtitle |-> content.subtitle,
                     subtitle2 |-> content.subtitle2, pretitle |-> content.pretitle,
                     description |-> IF content.subtitle2 # EMPTY THEN content.subtitle2
                                     ELSE first(content.paragraphs),
                     alignment |-> EMPTY],
         banner |-> banner,
         body |-> [paragraphs |-> content.paragraphs, headings |-> content.headings,
                   imgs |-> imgs, videos |-> content.videos, lists |-> content.lists,
                   links |-> content.links, icons |-> content.icons,
                   buttons |-> <<>>, cards |-> <<>>, documents |-> <<>>,
                   forms |-> <<>>, form |-> NULL, quotes |-> content.quotes,
                   properties |-> <<>>, propertyBlocks |-> <<>>]]

\* the content record after transformToNested ran on it: the image records are
\* shared with the returned structure
transformEffect(content) == [content EXCEPT !.imgs = filterCallback(@)]

\* legacy(parsed): the returned structure
legacy(entity) ==
    [main |-> transformToNested(entity),
     items |-> [k \in 1..Len(entity.items) |-> transformToNested(entity.items[k])]]

\* parsed after legacy(parsed)
legacyEffect(entity) ==
    [transformEffect(entity) EXCEPT
        !.items = [k \in 1..Len(entity.items) |-> transformEffect(entity.items[k])]]

\* ------------------------------------------------------------------ Init
\* processGroups(sequence) is called with a flat sequence
Init ==
    /\ pc = "split"
    /\ \E n \in 0..MaxLen : \E f \in [1..n -> ElementShapes] :
           sequence = [p \in 1..n |-> MkElement(f[p], p)]
    /\ i = 1
    /\ legacyResult = NoLegacy
    /\ groups = <<>>
    /\ currentGroup = <<>>
    /\ g = 1
    /\ e = 1
    /\ header = EmptyHeader
    /\ body = EmptyBody
    /\ metadata = EmptyMetadata
    /\ processedGroups = <<>>
    /\ result = EmptyEntity
    /\ node = NoNode
    /\ doc = NoDoc
    /\ options = NoOptions

\* a document made of headings only, nested deeper than in Init, at most one
\* of them without text; the run is taken up when splitBySlices has returned
\* and followed until every group is structured
MaxDeepLen == MaxLen + 1
DeepLevels == 1..(MaxLevel + 2)

InitDeep ==
    /\ pc = "structure"
    /\ \E n \in 1..MaxDeepLen : \E f \in [1..n -> DeepLevels] : \E z \in 0..n :
           sequence = [p \in 1..n |->
                          MkElement([type |-> "heading", level |-> f[p],
                                     role |-> "none", hasText |-> (p # z)], p)]
    /\ i = Len(sequence) + 1
    /\ legacyResult = NoLegacy
    /\ groups = splitBySlices(sequence)
    /\ currentGroup = <<>>
    /\ g = 1
    /\ e = 1
    /\ header = EmptyHeader
    /\ body = EmptyBody
    /\ metadata = EmptyMetadata
    /\ processedGroups = <<>>
    /\ result = EmptyEntity
    /\ node = NoNode
    /\ doc = NoDoc
    /\ options = NoOptions

\* processSequence(doc) is called with a document of one paragraph or heading
InitSeq ==
    /\ pc = "build"
    /\ \E t \in NodeShapes : \E n \in 0..MaxInline : \E f \in [1..n -> InlineShapes] :
           node = [type |-> t.type, attrs |-> nodeAttrs(t.level, NULL, NoData, "none"),
                   hasContent |-> TRUE,
                   content |-> [p \in 1..n |-> MkInline(f[p], p)]]
    /\ sequence = <<>>
    /\ i = 1
    /\ legacyResult = NoLegacy
    /\ groups = <<>>
    /\ currentGroup = <<>>
    /\ g = 1
    /\ e = 1
    /\ header = EmptyHeader
    /\ body = EmptyBody
    /\ metadata = EmptyMetadata
    /\ processedGroups = <<>>
    /\ result = EmptyEntity
    /\ doc = NoDoc
    /\ options = NoOptions

\* parseContent(doc, options) is called with any value as doc: a document of
\* up to MaxDocLen child nodes, an object without a content array, or a value
\* that is no object
InitDoc ==
    /\ pc = "parse"
    /\ \E kind \in DocKinds :
          \/ /\ kind = "object"
             /\ \E n \in 0..MaxDocLen : \E f \in [1..n -> DocShapes] :
                   doc = [kind |-> kind, hasContent |-> TRUE,
                          content |-> [p \in 1..n |-> MkNode(f[p], p)]]
          \/ doc = [kind |-> kind, hasContent |-> FALSE, content |-> <<>>]
    /\ options \in [parseCodeAsJson : BOOLEAN]
    /\ sequence = <<>>
    /\ i = 1
    /\ legacyResult = NoLegacy
    /\ groups = <<>>
    /\ currentGroup = <<>>
    /\ g = 1
    /\ e = 1
    /\ header = EmptyHeader
    /\ body = EmptyBody
    /\ metadata = EmptyMetadata
    /\ processedGroups = <<>>
    /\ result = EmptyEntity
    /\ node = NoNode

\* the marks a text run can carry, and the lists of distinct marks in any
\* order
RunMarks ==
    {colorMark(1), plainMark("highlight"), plainMark("span"), plainMark("bold"),
     plainMark("italic"), linkMark(2)}

MarkLists ==
    {ms \in UNION {[1..n -> RunMarks] : n \in 0..Cardinality(RunMarks)} :
        \A k, l \in 1..Len(ms) : k # l => ms[k] # ms[l]}

\* processSequence(doc) is called with a document of one paragraph: a plain
\* run followed by a run that carries marks
InitText ==
    /\ pc = "build"
    /\ \E ms \in MarkLists :
           node = block("paragraph", NoAttrs, <<run(1, <<>>), run(2, ms)>>)
    /\ sequence = <<>>
    /\ i = 1
    /\ legacyResult = NoLegacy
    /\ groups = <<>>
    /\ currentGroup = <<>>
    /\ g = 1
    /\ e = 1
    /\ header = EmptyHeader
    /\ body = EmptyBody
    /\ metadata = EmptyMetadata
    /\ processedGroups = <<>>
    /\ result = EmptyEntity
    /\ doc = NoDoc
    /\ options = NoOptions

\* legacy(parsed) is called with a parsed entity of up to MaxImgs images (the
\* src of an image is its position) and up to MaxItems items with images
ImageLists(base) ==
    UNION {{[p \in 1..n |-> MkImage(f[p], base + p)] : f \in [1..n -> ImageRoles]} :
              n \in 0..MaxImgs}

InitLegacy ==
    /\ pc = "legacy"
    /\ \E ims \in ImageLists(0) : \E ps \in {<<>>, <<1>>} : \E n \in 0..MaxItems :
       \E f \in [1..n -> ImageLists(MaxImgs)] :
           result = [EmptyEntity EXCEPT
                        !.imgs = ims,
                        !.paragraphs = ps,
                        !.items = [k \in 1..n |-> [EmptyFlat EXCEPT !.imgs = f[k]]]]
    /\ legacyResult = NoLegacy
    /\ sequence = <<>>
    /\ i = 1
    /\ groups = <<>>
    /\ currentGroup = <<>>
    /\ g = 1
    /\ e = 1
    /\ header = EmptyHeader
    /\ body = EmptyBody
    /\ metadata = EmptyMetadata
    /\ processedGroups = <<>>
    /\ node = NoNode
    /\ doc = NoDoc
    /\ options = NoOptions

\* --------------------------------------------------------------- actions
\* processNode: the child node is turned into its sequence elements
ProcessNode ==
    /\ pc = "build"
    /\ UNCHANGED legacyResult
    /\ sequence' = sequence \o createSequenceElement(node)
    /\ pc' = "built"
    /\ UNCHANGED <<i, groups, currentGroup, g, e, header, body, metadata,
                   processedGroups, result, node, doc, options>>

\* processGroups: the early return for an empty sequence
ReturnEmpty ==
    /\ pc = "split"
    /\ UNCHANGED legacyResult
    /\ Len(sequence) = 0
    /\ result' = EmptyEntity
    /\ pc' = "done"
    /\ UNCHANGED <<sequence, i, groups, currentGroup, g, e, header, body,
                   metadata, processedGroups, node, doc, options>>

\* splitBySlices: one iteration of the for loop
SplitStep ==
    /\ pc = "split"
    /\ UNCHANGED legacyResult
    /\ Len(sequence) > 0
    /\ i <= Len(sequence)
    /\ LET r == splitIteration(sequence, i, groups, currentGroup) IN
           /\ i' = r.next
           /\ groups' = r.groups
           /\ currentGroup' = r.currentGroup
    /\ UNCHANGED <<pc, sequence, g, e, header, body, metadata,
                   processedGroups, result, node, doc, options>>

\* splitBySlices: the final group is pushed and the groups are returned
SplitFinish ==
    /\ pc = "split"
    /\ UNCHANGED legacyResult
    /\ Len(sequence) > 0
    /\ i > Len(sequence)
    /\ groups' = closeGroup(groups, currentGroup)
    /\ currentGroup' = <<>>
    /\ pc' = IF Len(groups') = 0 THEN "resolve" ELSE "structure"
    /\ UNCHANGED <<sequence, i, g, e, header, body, metadata,
                   processedGroups, result, node, doc, options>>

\* processGroupContent: one iteration of the for loop over the group g; the
\* record is returned when the loop ends
StructureStep ==
    /\ pc = "structure"
    /\ UNCHANGED legacyResult
    /\ g <= Len(groups)
    /\ e <= Len(groups[g])
    /\ LET r == structureIteration(groups[g], e, header, body, metadata) IN
           IF r.next <= Len(groups[g])
           THEN /\ e' = r.next
                /\ header' = r.header
                /\ body' = r.body
                /\ metadata' = r.metadata
                /\ UNCHANGED <<g, processedGroups, pc>>
           ELSE /\ processedGroups' = Append(processedGroups,
                        [header |-> r.header, body |-> r.body, metadata |-> r.metadata])
                /\ g' = g + 1
                /\ e' = 1
                /\ header' = EmptyHeader
                /\ body' = EmptyBody
                /\ metadata' = EmptyMetadata
                /\ pc' = IF g + 1 <= Len(groups) THEN "structure" ELSE "resolve"
    /\ UNCHANGED <<sequence, i, groups, currentGroup, result, node, doc, options>>

\* processGroups: main/item resolution and flattening
Resolve ==
    /\ pc = "resolve"
    /\ UNCHANGED legacyResult
    /\ result' = resolveGroups(processedGroups)
    /\ pc' = "done"
    /\ UNCHANGED <<sequence, i, groups, currentGroup, g, e, header, body,
                   metadata, processedGroups, node, doc, options>>

\* parseContent: processSequence(doc, opts) returns the sequence or throws
ProcessSequence ==
    /\ pc = "parse"
    /\ UNCHANGED legacyResult
    /\ IF parseThrows(doc)
       THEN pc' = "threw" /\ UNCHANGED sequence
       ELSE pc' = "groups" /\ sequence' = processSequence(doc)
    /\ UNCHANGED <<i, groups, currentGroup, g, e, header, body, metadata,
                   processedGroups, result, node, doc, options>>

\* parseContent: processGroups(sequence, opts) and the return of the entity
\* (raw is doc, sequence is sequence, the other fields are result)
ProcessGroups ==
    /\ pc = "groups"
    /\ UNCHANGED legacyResult
    /\ groups' = splitBySlices(groupInput(sequence))
    /\ processedGroups' = [n \in 1..Len(groups') |-> processGroupContent(groups'[n])]
    /\ result' = processGroups(groupInput(sequence))
    /\ pc' = "done"
    /\ UNCHANGED <<sequence, i, currentGroup, g, e, header, body, metadata,
                   node, doc, options>>

Next == ReturnEmpty \/ SplitStep \/ SplitFinish \/ StructureStep \/ Resolve

Spec == Init /\ [][Next]_vars

NextDeep == StructureStep

SpecDeep == InitDeep /\ [][NextDeep]_vars

\* the stepwise run of splitBySlices returns what the loop computes at once
SplitAgrees == pc \in {"structure", "resolve"} => groups = splitBySlices(sequence)

NextDoc == ProcessSequence \/ ProcessGroups

SpecDoc == InitDoc /\ [][NextDoc]_vars

NextSeq == ProcessNode

SpecSeq == InitSeq /\ [][NextSeq]_vars

SpecText == InitText /\ [][NextSeq]_vars

\* legacy(parsed): the nested structure is returned; the callback of the
\* filter has written to the images of parsed
Legacy ==
    /\ pc = "legacy"
    /\ legacyResult' = legacy(result)
    /\ result' = legacyEffect(result)
    /\ pc' = "done"
    /\ UNCHANGED <<sequence, i, groups, currentGroup, g, e, header, body,
                   metadata, processedGroups, node, doc, options>>

NextLegacy == Legacy

SpecLegacy == InitLegacy /\ [][NextLegacy]_vars

\* ======================================================== the properties
\* notions the properties are stated in
RECURSIVE Concat(_)
Concat(ss) == IF ss = <<>> THEN <<>> ELSE Head(ss) \o Concat(Tail(ss))

NotDivider(x) == x.type # "divider"
IsHeading(x) == x.type = "heading"
IsParagraph(x) == x.type = "paragraph"
IsImage(x) == x.type = "image"
TextsOf(els) == [k \in 1..Len(els) |-> els[k].text]
AttrsOf(els) == [k \in 1..Len(els) |-> els[k].attrs]
HeadingAt(els, k) == k >= 1 /\ k <= Len(els) /\ els[k].type = "heading"

\* index of the first heading of a group (0: it has none)
FirstHeading(els) ==
    IF \E k \in 1..Len(els) : HeadingAt(els, k)
    THEN CHOOSE k \in 1..Len(els) : HeadingAt(els, k) /\ \A l \in 1..(k - 1) : ~HeadingAt(els, l)
    ELSE 0

\* the first heading of the group is directly followed by a more important one
PretitlePair(els) ==
    LET k == FirstHeading(els) IN
    /\ k > 0
    /\ HeadingAt(els, k + 1)
    /\ els[k].level > els[k + 1].level

\* the first group has to be main according to the levels of the groups
MainExpected ==
    \/ Len(processedGroups) = 1
    \/ /\ Len(processedGroups) >= 2
       /\ processedGroups[1].metadata.level # NULL
       /\ \/ processedGroups[2].metadata.level = NULL
          \/ processedGroups[1].metadata.level < processedGroups[2].metadata.level

\* the flat record r shows the header and body of the structured group pg
Shows(r, pg) ==
    /\ r.title = pg.header.title /\ r.pretitle = pg.header.pretitle
    /\ r.subtitle = pg.header.subtitle /\ r.subtitle2 = pg.header.subtitle2
    /\ r.paragraphs = pg.body.paragraphs /\ r.imgs = pg.body.imgs
    /\ r.headings = pg.body.headings

ShowsNothing(r) ==
    /\ r.title = EMPTY /\ r.pretitle = EMPTY /\ r.subtitle = EMPTY /\ r.subtitle2 = EMPTY
    /\ r.paragraphs = <<>> /\ r.imgs = <<>> /\ r.headings = <<>>

\* C1: processGroups makes the first group main when it is the only group, or
\* when it has a level and the second group has none or a numerically larger
\* one; otherwise the root header is empty and every group is an item. Two
\* level-1 groups give root title "" and two items.
C1_MainItemResolution ==
    (pc = "done" /\ Len(sequence) > 0) =>
        /\ IF MainExpected
           THEN /\ Shows(result, processedGroups[1])
                /\ Len(result.items) = Len(processedGroups) - 1
                /\ \A k \in 1..Len(result.items) : Shows(result.items[k], processedGroups[k + 1])
           ELSE /\ ShowsNothing(result)
                /\ Len(result.items) = Len(processedGroups)
                /\ \A k \in 1..Len(result.items) : Shows(result.items[k], processedGroups[k])
        /\ (/\ Len(processedGroups) = 2
            /\ processedGroups[1].metadata.level = 1
            /\ processedGroups[2].metadata.level = 1)
           => (result.title = EMPTY /\ Len(result.items) = 2)

\* two level-1 headings with text were resolved: no main, two items
C1_Witness ==
    /\ pc = "done"
    /\ Len(sequence) = 2
    /\ \A k \in 1..2 : sequence[k].type = "heading" /\ sequence[k].level = 1
                       /\ sequence[k].text # EMPTY
    /\ result.title = EMPTY
    /\ Len(result.items) = 2
    /\ result.items[1].title = sequence[1].text
    /\ result.items[2].title = sequence[2].text

\* C2: the groups of splitBySlices, concatenated in order, are the input
\* sequence without its dividers (at every point of the loop: the closed
\* groups and the open group are the part read so far without its dividers).
C2_SegmentationConserves ==
    /\ pc = "split" =>
          Concat(groups) \o currentGroup = SelectSeq(SubSeq(sequence, 1, i - 1), NotDivider)
    /\ pc # "split" => Concat(groups) = SelectSeq(sequence, NotDivider)

\* a sequence with a divider and a heading block was split into several groups
C2_Witness ==
    /\ pc = "structure"
    /\ Len(groups) >= 2
    /\ \E k \in 1..Len(sequence) : sequence[k].type = "divider"
    /\ \E n \in 1..Len(groups) : Len(groups[n]) >= 2 /\ HeadingAt(groups[n], 2)

SlotHeadings(els) ==
    LET hs == SelectSeq(els, IsHeading)
    IN  IF PretitlePair(els) THEN Tail(hs) ELSE hs

\* the number of headings with text among the first k - 1 of hs
TextsBefore(hs, k) == Cardinality({l \in 1..(k - 1) : hs[l].text # EMPTY})

\* the headings of hs that arrive when title, subtitle and subtitle2 are filled
LateHeadings(hs) ==
    LET late == {k \in 1..Len(hs) : TextsBefore(hs, k) >= 3}
        from == IF late = {} THEN Len(hs) + 1 ELSE CHOOSE k \in late : \A l \in late : k <= l
    IN  SubSeq(hs, from, Len(hs))

\* C4: no heading is lost or reordered by processGroupContent: the text of
\* every heading of a group is in exactly one of pretitle, title, subtitle,
\* subtitle2 and body.headings, and body.headings holds, in document order, the
\* headings that arrived when title, subtitle and subtitle2 were filled.
C4_NoHeadingLost ==
    pc = "resolve" => \A n \in 1..Len(processedGroups) :
        LET hd == processedGroups[n].header
            slots == <<hd.pretitle, hd.title, hd.subtitle, hd.subtitle2>>
                     \o processedGroups[n].body.headings
            hs == SelectSeq(groups[n], IsHeading)
        IN  /\ \A k \in 1..Len(hs) :
                   hs[k].text # EMPTY =>
                       Cardinality({m \in 1..Len(slots) : slots[m] = hs[k].text}) = 1
            /\ processedGroups[n].body.headings = TextsOf(LateHeadings(SlotHeadings(groups[n])))

\* a group of five nested headings was structured: two of them are in
\* body.headings
C4_Witness ==
    \E n \in 1..Len(processedGroups) :
        /\ Len(processedGroups[n].body.headings) = 2
        /\ processedGroups[n].header.subtitle2 # EMPTY
        /\ processedGroups[n].body.headings[1] # EMPTY
        /\ processedGroups[n].body.headings[2] # EMPTY

\* the header and the overflow headings after the step: of the accumulators
\* while the group goes on, of the returned record when the group ends
HeaderAfter == IF g' = g THEN header' ELSE processedGroups'[g].header
HeadingsAfter == IF g' = g THEN body'.headings ELSE processedGroups'[g].body.headings

\* C5: while a group is structured a filled pretitle, title, subtitle or
\* subtitle2 is never changed by a later heading, and a heading that arrives
\* when title, subtitle and subtitle2 are filled is appended to body.headings.
C5_HeaderSlotExclusivity ==
    [][pc = "structure" =>
          /\ header.pretitle # EMPTY => HeaderAfter.pretitle = header.pretitle
          /\ header.title # EMPTY => HeaderAfter.title = header.title
          /\ header.subtitle # EMPTY => HeaderAfter.subtitle = header.subtitle
          /\ header.subtitle2 # EMPTY => HeaderAfter.subtitle2 = header.subtitle2
          /\ (/\ header.title # EMPTY /\ header.subtitle # EMPTY /\ header.subtitle2 # EMPTY
              /\ groups[g][e].type = "heading")
             => HeadingsAfter = Append(body.headings, groups[g][e].text)
    ]_vars

\* title, subtitle and subtitle2 are filled, one heading is in body.headings
\* and a further heading of the group is about to be processed
C5_Witness ==
    /\ pc = "structure"
    /\ header.title # EMPTY
    /\ header.subtitle # EMPTY /\ header.subtitle2 # EMPTY
    /\ Len(body.headings) = 1
    /\ e <= Len(groups[g])
    /\ groups[g][e].type = "heading"

\* C6: items lists, in group order, the groups other than main (all groups
\* when none is main), each flattened on its own: one item per such group,
\* holding the paragraphs and images of that group only, and no item has items.
C6_ItemsAreTheOtherGroups ==
    (pc = "done" /\ Len(sequence) > 0) =>
        LET off == IF MainExpected THEN 1 ELSE 0 IN
        /\ Len(result.items) = Len(groups) - off
        /\ \A k \in 1..Len(result.items) :
               /\ result.items[k].paragraphs = TextsOf(SelectSeq(groups[k + off], IsParagraph))
               /\ result.items[k].imgs = AttrsOf(SelectSeq(groups[k + off], IsImage))
               /\ result.items[k].title = processedGroups[k + off].header.title
               /\ "items" \notin DOMAIN result.items[k]

\* three groups were resolved with the first as main: two items, the first
\* with a paragraph and no title, the second with a title
C6_Witness ==
    /\ pc = "done"
    /\ Len(groups) = 3
    /\ MainExpected
    /\ Len(result.items) = 2
    /\ result.title # EMPTY
    /\ Len(result.items[1].paragraphs) = 1
    /\ result.items[1].title = EMPTY
    /\ result.items[2].title # EMPTY

\* the sequence is H1, H2, H3 followed by paragraphs, H2s and H3s that follow
\* an H2, all with text: an H1 with H2 sections that have H3 sub-headings
ResumePattern ==
    /\ Len(sequence) >= 4
    /\ \A k \in 1..Len(sequence) : sequence[k].text # EMPTY
    /\ \A k \in 1..3 : sequence[k].type = "heading" /\ sequence[k].level = k
    /\ \A k \in 4..Len(sequence) :
           \/ sequence[k].type = "paragraph"
           \/ sequence[k].type = "heading" /\ sequence[k].level = 2
           \/ /\ sequence[k].type = "heading" /\ sequence[k].level = 3
              /\ sequence[k - 1].type = "heading" /\ sequence[k - 1].level = 2

\* C7: for H1, H2, H3, ..., H2, ... the H2s do not merge into the group of the
\* H1: the root title is the H1, the root subtitle is not the first H2, there
\* is one item per H2 and the first item has the H2 as title and its H3 as
\* subtitle.
C7_ResumePattern ==
    (pc = "done" /\ ResumePattern) =>
        /\ result.title = sequence[1].text
        /\ result.subtitle # sequence[2].text
        /\ Len(result.items) =
               Cardinality({k \in 1..Len(sequence) :
                                sequence[k].type = "heading" /\ sequence[k].level = 2})
        /\ Len(result.items) >= 1 =>
               /\ result.items[1].title = sequence[2].text
               /\ result.items[1].subtitle = sequence[3].text

\* the non-empty runs of elements between the dividers of a sequence
RECURSIVE DividerRuns(_, _)
DividerRuns(seq, cur) ==
    IF seq = <<>> THEN (IF cur = <<>> THEN <<>> ELSE <<cur>>)
    ELSE IF Head(seq).type = "divider"
    THEN (IF cur = <<>> THEN <<>> ELSE <<cur>>) \o DividerRuns(Tail(seq), <<>>)
    ELSE DividerRuns(Tail(seq), Append(cur, Head(seq)))

\* C8: when the sequence holds a divider, the groups are the runs of elements
\* between the dividers: a heading that follows content starts no group.
C8_DividerModeOnly ==
    (pc = "structure" /\ \E k \in 1..Len(sequence) : sequence[k].type = "divider")
        => groups = DividerRuns(sequence, <<>>)

\* the significant items of a content: no icons, no white-space-only text
Significant(content) ==
    {k \in 1..Len(content) :
        /\ content[k].type # "UniwebIcon"
        /\ ~(content[k].type = "text" /\ content[k].text \in {EMPTY, BLANK})}

LinkRun(item) ==
    item.type = "text" /\ \E l \in 1..Len(item.marks) : item.marks[l].type = "link"

\* the href of the (only) link mark of a run
HrefOf(item) ==
    LET l == CHOOSE l \in 1..Len(item.marks) : item.marks[l].type = "link"
    IN  item.marks[l].href

IconsAt(content, ks) == {k \in ks : content[k].type = "UniwebIcon"}
MaxOf(ks) == CHOOSE k \in ks : \A l \in ks : l <= k
MinOf(ks) == CHOOSE k \in ks : \A l \in ks : k <= l

\* the node is a paragraph or heading whose only significant item is a link run
SingleLink ==
    /\ node.type \in {"paragraph", "heading"}
    /\ Cardinality(Significant(node.content)) = 1
    /\ \A k \in Significant(node.content) : LinkRun(node.content[k])

\* C9: a paragraph or heading whose content without icons and white-space
\* text is one link run yields one link element with the run's href and label;
\* iconBefore is the last icon before the run, iconAfter the first icon after
\* it, each null when there is none.
C9_SingleLinkPattern ==
    (pc = "built" /\ SingleLink) =>
        LET c == node.content
            r == CHOOSE k \in Significant(c) : TRUE
            before == IconsAt(c, 1..(r - 1))
            after == IconsAt(c, (r + 1)..Len(c))
        IN  /\ Len(sequence) = 1
            /\ sequence[1].type = "link"
            /\ sequence[1].attrs.href = HrefOf(c[r])
            /\ sequence[1].attrs.label = c[r].text
            /\ sequence[1].attrs.iconBefore.svg =
                   (IF before = {} THEN NULL ELSE c[MaxOf(before)].attrs.svg)
            /\ sequence[1].attrs.iconAfter.svg =
                   (IF after = {} THEN NULL ELSE c[MinOf(after)].attrs.svg)

\* icon, link run, icon was built: a link element with both icons
C9_Witness ==
    /\ pc = "built"
    /\ SingleLink
    /\ Len(node.content) = 3
    /\ node.content[1].type = "UniwebIcon"
    /\ node.content[3].type = "UniwebIcon"
    /\ Len(sequence) = 1
    /\ sequence[1].type = "link"
    /\ sequence[1].attrs.iconBefore.svg = 1
    /\ sequence[1].attrs.iconAfter.svg = 3

\* the node is a paragraph whose significant items are two or more link runs
LinkBurst ==
    /\ node.type = "paragraph"
    /\ Cardinality(Significant(node.content)) >= 2
    /\ \A k \in Significant(node.content) : LinkRun(node.content[k])

\* the k-th smallest member of a set of numbers
RECURSIVE Nth(_, _)
Nth(ks, k) == IF k = 1 THEN MinOf(ks) ELSE Nth(ks \ {MinOf(ks)}, k - 1)

\* C10: a paragraph whose content without icons and white-space text is two
\* or more link runs yields one link element per run, in run order, each with
\* the run's href and label and nothing else, and no paragraph element.
C10_MultiLinkBurst ==
    (pc = "built" /\ LinkBurst) =>
        LET c == node.content
            runs == Significant(c)
        IN  /\ Len(sequence) = Cardinality(runs)
            /\ \A k \in 1..Len(sequence) :
                   /\ sequence[k].type = "link"
                   /\ DOMAIN sequence[k].attrs = {"href", "label"}
                   /\ sequence[k].attrs.href = HrefOf(c[Nth(runs, k)])
                   /\ sequence[k].attrs.label = c[Nth(runs, k)].text

\* an icon and two link runs with different hrefs, the second one bold, were
\* built: two link elements
C10_Witness ==
    /\ pc = "built"
    /\ LinkBurst
    /\ \E k \in 1..Len(node.content) : node.content[k].type = "UniwebIcon"
    /\ Len(sequence) = 2
    /\ sequence[1].attrs.href = 2
    /\ sequence[2].attrs.href = 1
    /\ \E k \in Significant(node.content) : Len(node.content[k].marks) = 2

\* the items of a content that are not icons
NonIcons(content) == {k \in 1..Len(content) : content[k].type # "UniwebIcon"}

\* a link run whose text is more than white space
TextLinkRun(item) == LinkRun(item) /\ item.text \notin {EMPTY, BLANK}

\* the node is a paragraph or heading whose only item besides icons is a link
\* run with text
OneLinkOnly ==
    /\ node.type \in {"paragraph", "heading"}
    /\ Cardinality(NonIcons(node.content)) = 1
    /\ \A k \in NonIcons(node.content) : TextLinkRun(node.content[k])

\* the node is a paragraph whose items besides icons are two or more link
\* runs with text that link to one href
SameHrefBurst ==
    /\ node.type = "paragraph"
    /\ Cardinality(NonIcons(node.content)) >= 2
    /\ \A k \in NonIcons(node.content) : TextLinkRun(node.content[k])
    /\ \A k, l \in NonIcons(node.content) : HrefOf(node.content[k]) = HrefOf(node.content[l])

TreeShaped == doc.kind = "object" /\ doc.hasContent

\* C12: for a tree-shaped document whose nodes or marks lack expected
\* attributes (a link mark without href or without attrs, a heading without
\* attrs, a list without content) the parse never throws.
C12_MissingAttrsNeverThrow == TreeShaped => pc # "threw"

\* C13: when the value passed to parseContent is no tree-shaped document
\* (null, undefined, a number, a string, an object without content array)
\* the call is not carried on: no sequence is handed to processGroups and no
\* entity is returned.
C13_InvalidInputFatal == ~TreeShaped => pc \notin {"groups", "done"}

Range(f) == {f[k] : k \in DOMAIN f}

\* the flat record of the n-th group: the root when the group is main, else
\* its item
RecordOf(n) ==
    IF MainExpected THEN (IF n = 1 THEN result ELSE result.items[n - 1])
    ELSE result.items[n]

\* the value v is stored under some key of the data mapping
InData(data, v) == \E key \in DOMAIN data : data[key] = v

\* the element el of a group shows in a field of the flat record r
Represented(el, r) ==
    CASE el.type = "heading" ->
            \/ el.text = EMPTY
            \/ el.text \in {r.pretitle, r.title, r.subtitle, r.subtitle2} \cup Range(r.headings)
      [] el.type = "paragraph" -> el.text \in Range(r.paragraphs)
      [] el.type = "link" -> \E k \in 1..Len(r.links) : r.links[k] = el.attrs
      [] el.type = "blockquote" -> Len(r.quotes) > 0
      [] el.type = "list" -> Len(r.lists) > 0
      [] el.type = "dataBlock" -> InData(r.data, el.data)
      [] el.type = "codeBlock" -> InData(r.data, el.text)
      [] el.type = "card-group" ->
            \A c \in 1..Len(el.cards) :
                \E key \in DOMAIN r.data : \E k \in 1..Len(r.data[key]) :
                    r.data[key][k] = [name |-> el.cards[c].name]
      [] OTHER -> InData(r.data, el.content) \/ textKey(el.content) \in Range(r.paragraphs)

\* C14: no content is dropped from the entity: every element of a group shows
\* in some field of the flat record of the group, the generic element of an
\* unrecognized node type and an untagged code block included.
C14_NoContentDropped ==
    pc = "done" =>
        \A n \in 1..Len(groups) : \A k \in 1..Len(groups[n]) :
            Represented(groups[n][k], RecordOf(n))

\* the value v is kept in what is stored under a key: it is the stored value
\* or a part of the stored values put one after the other
Kept(stored, v) ==
    \/ stored = v
    \/ \E a, b \in 1..Len(stored) : SubSeq(stored, a, b) = v

\* C15: data is built by accumulation: the value of every dataBlock and tagged
\* codeBlock of a group is kept under its tag, and every card under its card
\* type, also when a later element of the group uses the same key.
C15_DataAccumulates ==
    pc = "done" =>
        \A n \in 1..Len(groups) : \A k \in 1..Len(groups[n]) :
            LET el == groups[n][k]
                data == RecordOf(n).data
            IN  /\ el.type = "dataBlock" =>
                       el.tag \in DOMAIN data /\ Kept(data[el.tag], el.data)
                /\ (el.type = "codeBlock" /\ el.attrs.tag # NULL) =>
                       el.attrs.tag \in DOMAIN data /\ Kept(data[el.attrs.tag], el.text)
                /\ el.type = "card-group" =>
                       \A c \in 1..Len(el.cards) :
                           LET key == IF el.cards[c].cardType # NULL
                                      THEN el.cards[c].cardType ELSE defaultCardType
                           IN  key \in DOMAIN data
                               /\ \E m \in 1..Len(data[key]) :
                                      data[key][m] = [name |-> el.cards[c].name]

\* the nested element c shows in the body record b
InBody(c, b) ==
    CASE c.type = "heading" -> c.text = EMPTY \/ c.text \in Range(b.headings) \cup Range(b.paragraphs)
      [] c.type = "paragraph" -> c.text = EMPTY \/ c.text \in Range(b.paragraphs)
      [] c.type = "link" -> \E k \in 1..Len(b.links) : b.links[k] = c.attrs
      [] c.type = "list" -> Len(b.lists) > 0
      [] c.type = "blockquote" -> Len(b.quotes) > 0
      [] OTHER -> TRUE

IsQuote(x) == x.type = "blockquote"
IsList(x) == x.type = "list"

\* C16: each blockquote of a group adds one body record to quotes and each
\* list one array to lists with one body record per list item, in order, and
\* every paragraph, link, nested list or quote and heading text found inside
\* the blockquote or list item is present in its body record.
C16_NestedContentPreserved ==
    pc = "done" =>
        \A n \in 1..Len(groups) :
            LET quotes == SelectSeq(groups[n], IsQuote)
                lists == SelectSeq(groups[n], IsList)
                r == RecordOf(n)
            IN  /\ Len(r.quotes) = Len(quotes)
                /\ \A q \in 1..Len(quotes) : \A c \in 1..Len(quotes[q].children) :
                       InBody(quotes[q].children[c], r.quotes[q])
                /\ Len(r.lists) = Len(lists)
                /\ \A l \in 1..Len(lists) :
                       /\ Len(r.lists[l]) = Len(lists[l].children)
                       /\ \A m \in 1..Len(lists[l].children) :
                              \A c \in 1..Len(lists[l].children[m]) :
                                  InBody(lists[l].children[m][c], r.lists[l][m])

\* the element is a code block without tag and without pre-parsed data whose
\* text is valid JSON
UntaggedJsonBlock(el) ==
    /\ el.type = "codeBlock"
    /\ el.attrs.tag = NULL
    /\ el.attrs.data = NoData
    /\ Len(el.text) = 1
    /\ el.text[1].v >= JsonTextBase

\* C18: with parseCodeAsJson true a code block without tag and pre-parsed data
\* whose text is valid JSON is emitted with the parsed value, with the default
\* false with its raw text.
C18_ParseCodeAsJson ==
    pc \in {"groups", "done"} =>
        \A k \in 1..Len(sequence) :
            UntaggedJsonBlock(sequence[k]) =>
                sequence[k].text[1].t = (IF options.parseCodeAsJson THEN "parsed" ELSE "text")

MarkOrder == <<"textStyle", "highlight", "span", "bold", "italic", "link">>

Opening(type) ==
    CASE type = "textStyle" -> Tok("<span color>", 1, 0, FALSE)
      [] type = "highlight" -> Tok("<span highlight>", 0, 0, FALSE)
      [] type = "span" -> Tok("<span>", 0, 0, FALSE)
      [] type = "bold" -> Tok("<strong>", 0, 0, FALSE)
      [] type = "italic" -> Tok("<em>", 0, 0, FALSE)
      [] type = "link" -> Tok("<a>", 2, SELF, TRUE)

Closing(type) ==
    CASE type \in {"textStyle", "highlight", "span"} -> Tok("</span>", 0, 0, FALSE)
      [] type = "bold" -> Tok("</strong>", 0, 0, FALSE)
      [] type = "italic" -> Tok("</em>", 0, 0, FALSE)
      [] type = "link" -> Tok("</a>", 0, 0, FALSE)

\* the text with the tags of the first n marks of MarkOrder that are among
\* types around it
RECURSIVE Nested(_, _, _)
Nested(types, text, n) ==
    IF n = 0 THEN <<Tok("text", text, 0, FALSE)>>
    ELSE IF MarkOrder[n] \in types
    THEN <<Opening(MarkOrder[n])>> \o Nested(types, text, n - 1) \o <<Closing(MarkOrder[n])>>
    ELSE Nested(types, text, n - 1)

\* the node is a paragraph of a plain run followed by a marked run
MarkedRun ==
    /\ node.type = "paragraph"
    /\ Len(node.content) = 2
    /\ node.content[1].marks = <<>>
    /\ node.content[2].marks \in MarkLists

\* C17: the HTML of a text run nests its marks in the order color innermost,
\* highlight, span, bold, italic, link outermost, whatever the order of the
\* marks on the run; an absent mark is left out and the others nest as before.
C17_MarkNestingFixed ==
    (pc = "built" /\ MarkedRun) =>
        LET types == {node.content[2].marks[k].type : k \in 1..Len(node.content[2].marks)}
        IN  /\ Len(sequence) = 1
            /\ sequence[1].type = "paragraph"
            /\ sequence[1].text =
                   <<Tok("text", 1, 0, FALSE)>> \o Nested(types, 2, Len(MarkOrder))

\* a run with the marks bold, span in this order was rendered as
\* <strong><span>text</span></strong>
C17_Witness ==
    /\ pc = "built"
    /\ MarkedRun
    /\ node.content[2].marks = <<plainMark("bold"), plainMark("span")>>
    /\ sequence[1].text = <<Tok("text", 1, 0, FALSE), Tok("<strong>", 0, 0, FALSE),
                            Tok("<span>", 0, 0, FALSE), Tok("text", 2, 0, FALSE),
                            Tok("</span>", 0, 0, FALSE), Tok("</strong>", 0, 0, FALSE)>>

\* the heading h would be absorbed into the heading block b
Absorbable(b, h) ==
    \/ h.level > b[Len(b)].level
    \/ Len(b) = 1 /\ h.level < b[Len(b)].level

RECURSIVE BlockEnd(_, _, _)
BlockEnd(seq, k, m) ==
    IF m + 1 <= Len(seq) /\ seq[m + 1].type = "heading"
          /\ Absorbable(SubSeq(seq, k, m), seq[m + 1])
    THEN BlockEnd(seq, k, m + 1)
    ELSE m

\* the sequence starts with an image directly followed by a heading
BannerStart ==
    Len(sequence) >= 2 /\ sequence[1].type = "image" /\ sequence[2].type = "heading"

GroupStarts(seq) ==
    {k \in 1..Len(seq) :
        /\ seq[k].type # "divider"
        /\ (k = 1 \/ seq[k - 1].type = "divider" \/ seq[k].type = "heading")}

OnlyDividers(seq) == Len(seq) > 0 /\ \A k \in 1..Len(seq) : seq[k].type = "divider"

\* C22: no group of splitBySlices is empty or contains a divider (at every
\* point of the loop, and of the open group: it has no divider); every group
\* starts at an element that is no divider, so leading, trailing and
\* consecutive dividers add no group; a sequence of dividers only gives no
\* group, and its result is the empty entity.
C22_DividersConsumed ==
    /\ \A n \in 1..Len(groups) :
          /\ Len(groups[n]) > 0
          /\ \A j \in 1..Len(groups[n]) : groups[n][j].type # "divider"
          /\ groups[n][1].attrs \in GroupStarts(sequence)
    /\ \A j \in 1..Len(currentGroup) : currentGroup[j].type # "divider"
    /\ Len(groups) <= Cardinality(GroupStarts(sequence))
    /\ (pc # "split" /\ OnlyDividers(sequence)) => Len(groups) = 0
    /\ (pc = "done" /\ OnlyDividers(sequence)) =>
          /\ DOMAIN result = {"title", "pretitle", "subtitle", "subtitle2", "paragraphs",
                              "links", "imgs", "icons", "lists", "videos", "data",
                              "quotes", "headings", "items"}
          /\ result.title = EMPTY /\ result.pretitle = EMPTY
          /\ result.subtitle = EMPTY /\ result.subtitle2 = EMPTY
          /\ \A f \in {"paragraphs", "links", "imgs", "icons", "lists", "videos",
                       "quotes", "headings", "items"} : result[f] = <<>>
          /\ DOMAIN result.data = {}

\* a sequence of two or more dividers was processed to the end
C22_Witness ==
    /\ pc = "done"
    /\ OnlyDividers(sequence)
    /\ Len(sequence) >= 2
    /\ Len(groups) = 0
    /\ result.items = <<>>

\* the target of the (only) link mark of a run
TargetOf(item) ==
    LET l == CHOOSE l \in 1..Len(item.marks) : item.marks[l].type = "link"
    IN  item.marks[l].target

\* the element is a styled-link paragraph: its text is one outer anchor
StyledLinkParagraph(el) ==
    /\ el.type = "paragraph"
    /\ Len(el.text) >= 1
    /\ el.text[1].t = "<a styled>"

\* C23: a paragraph or heading is emitted as a styled-link paragraph only if
\* every item that is no icon carries a link mark and all these link marks have
\* one href and one target.
C23_StyledLinkOneTarget ==
    (pc = "built" /\ Len(sequence) = 1 /\ StyledLinkParagraph(sequence[1])) =>
        LET c == node.content IN
        /\ \A k \in NonIcons(c) : LinkRun(c[k])
        /\ \A k, l \in NonIcons(c) :
              /\ HrefOf(c[k]) = HrefOf(c[l])
              /\ TargetOf(c[k]) = TargetOf(c[l])

\* the link elements with embedded inline children (made of single-link
\* paragraphs and headings)
HasChildren(el) == el.type = "link" /\ "children" \in DOMAIN el.attrs

\* the attrs of the children of type t of the link element el
ChildAttrs(el, t) ==
    {el.attrs.children[k].attrs :
        k \in {l \in 1..Len(el.attrs.children) : el.attrs.children[l].type = t}}

\* C24: structuring a link element appends the link to the links of its group
\* and lifts its embedded inline children: the icon children are in the icons
\* and the link children in the links of the group.
C24_LinkChildrenLifted ==
    pc = "done" =>
        \A n \in 1..Len(groups) : \A k \in 1..Len(groups[n]) :
            LET el == groups[n][k]
                r == RecordOf(n)
            IN  HasChildren(el) =>
                    /\ el.attrs \in Range(r.links)
                    /\ ChildAttrs(el, "icon") \subseteq Range(r.icons)
                    /\ ChildAttrs(el, "link") \subseteq Range(r.links)

\* the document node d is a multi-link burst paragraph: its items besides
\* icons and white-space text are two or more link runs
BurstNode(d) ==
    /\ d.type = "paragraph"
    /\ Cardinality(Significant(d.content)) >= 2
    /\ \A k \in Significant(d.content) : LinkRun(d.content[k])

\* the groups that hold a link element made of a run of the node d
GroupsOfLinks(d) ==
    {n \in 1..Len(groups) :
        \E j \in 1..Len(groups[n]) : \E k \in Significant(d.content) :
            /\ groups[n][j].type = "link"
            /\ groups[n][j].attrs.label = d.content[k].text}

\* C25: the icons of a multi-link burst paragraph are not lost: each is in the
\* icons of the group that receives the links of the paragraph.
C25_BurstIconsSurface ==
    (pc = "done" /\ TreeShaped) =>
        \A p \in 1..Len(doc.content) :
            LET d == doc.content[p] IN
            BurstNode(d) =>
                /\ GroupsOfLinks(d) # {}
                /\ \A n \in GroupsOfLinks(d) :
                      \A k \in IconsAt(d.content, 1..Len(d.content)) :
                          \E c \in 1..Len(RecordOf(n).icons) :
                              RecordOf(n).icons[c].svg = d.content[k].attrs.svg

\* the banner of a content record: the first image whose role is "banner", or
\* the first image when no image has that role (undefined without images)
BannerOf(content) ==
    LET banners == {k \in 1..Len(content.imgs) : content.imgs[k].role = "banner"}
    IN  IF banners # {} THEN content.imgs[MinOf(banners)]
        ELSE IF Len(content.imgs) > 0 THEN content.imgs[1]
        ELSE NoImage

\* C26: legacy(parsed) leaves parsed and every record reachable from it
\* unchanged (the role of no image of imgs is modified), and the returned
\* banner is the first image whose role is "banner", or the first image when
\* none has that role.
C26_LegacyPureProjection ==
    [][pc = "legacy" =>
          /\ result' = result
          /\ legacyResult'.main.banner = BannerOf(result)
          /\ \A k \in 1..Len(result.items) :
                 legacyResult'.items[k].banner = BannerOf(result.items[k])]_vars

\* the numerically smallest level of the headings of a group that are not its
\* pretitle (NULL: there is none)
MinLevel(els) ==
    LET hs == SlotHeadings(els)
        levels == {hs[k].level : k \in 1..Len(hs)}
    IN  IF levels = {} THEN NULL ELSE MinOf(levels)

\* the first group is main when the groups are compared by these levels
MainByMinLevel ==
    \/ Len(groups) = 1
    \/ /\ Len(groups) >= 2
       /\ MinLevel(groups[1]) # NULL
       /\ (MinLevel(groups[2]) = NULL \/ MinLevel(groups[1]) < MinLevel(groups[2]))

\* C27: the metadata.level of every group is the numerically smallest level
\* of its headings that are not its pretitle, and null exactly when the group
\* has no heading; so the main/item decision is the one the smallest levels
\* give.
C27_LevelIsMostImportant ==
    pc \in {"resolve", "done"} =>
        /\ \A n \in 1..Len(groups) :
              /\ processedGroups[n].metadata.level = MinLevel(groups[n])
              /\ (processedGroups[n].metadata.level = NULL)
                    <=> (SelectSeq(groups[n], IsHeading) = <<>>)
        /\ (pc = "done" /\ Len(groups) >= 1) =>
              (Len(result.items) = Len(groups) - 1 <=> MainByMinLevel)

\* a group of a pretitle, a title and a deeper heading has the level of the
\* title, and a group without heading was structured
C27_Witness ==
    /\ pc = "resolve"
    /\ \E n \in 1..Len(groups) :
          LET hs == SelectSeq(groups[n], IsHeading) IN
          /\ Len(hs) = 3
          /\ PretitlePair(groups[n])
          /\ processedGroups[n].metadata.level = hs[2].level
          /\ hs[2].level < hs[1].level /\ hs[2].level < hs[3].level
    /\ \E n \in 1..Len(groups) : processedGroups[n].metadata.level = NULL

\* the indices of the headings of a group
HeadingIndices(els) == {k \in 1..Len(els) : els[k].type = "heading"}

SameHrefRuns ==
    /\ Cardinality(Significant(node.content)) >= 2
    /\ \A k \in Significant(node.content) : LinkRun(node.content[k])
    /\ \A k, l \in Significant(node.content) :
          HrefOf(node.content[k]) = HrefOf(node.content[l])

\* C29: for a paragraph node the burst wins over the styled link: when its
\* significant items are two or more link runs to one href (one link whose
\* text is partly bold, for example), one link element per run is emitted, with
\* the run's text as label, and no styled-link paragraph; a styled-link
\* paragraph comes of such content only when the node is a heading.
C29_BurstBeforeStyledLink ==
    (pc = "built" /\ SameHrefRuns) =>
        /\ node.type = "paragraph" =>
              /\ Len(sequence) = Cardinality(Significant(node.content))
              /\ \A k \in 1..Len(sequence) :
                    /\ sequence[k].type = "link"
                    /\ sequence[k].attrs.label = node.content[Nth(Significant(node.content), k)].text
                    /\ ~StyledLinkParagraph(sequence[k])
        /\ (\E k \in 1..Len(sequence) : StyledLinkParagraph(sequence[k])) =>
              node.type = "heading"

\* a paragraph of a link run and a bold link run to the same href was built:
\* two link elements
C29_Witness ==
    /\ pc = "built"
    /\ node.type = "paragraph"
    /\ SameHrefRuns
    /\ Len(node.content) = 2
    /\ Len(node.content[2].marks) = 2
    /\ node.content[2].marks[1].type = "bold"
    /\ Len(sequence) = 2
    /\ sequence[1].type = "link" /\ sequence[2].type = "link"

\* the document node d is a heading that matches the single-link pattern (its
\* only significant item is a link run) or the styled-link pattern (its items
\* besides icons are link runs with text to one href)
LinkHeading(d) ==
    /\ d.type = "heading"
    /\ \/ /\ Cardinality(Significant(d.content)) = 1
          /\ \A k \in Significant(d.content) : LinkRun(d.content[k])
       \/ /\ NonIcons(d.content) # {}
          /\ \A k \in NonIcons(d.content) : TextLinkRun(d.content[k])
          /\ \A k, l \in NonIcons(d.content) :
                HrefOf(d.content[k]) = HrefOf(d.content[l])

\* the texts of the runs of a node
RunTexts(d) == {d.content[k].text : k \in {l \in 1..Len(d.content) : d.content[l].type = "text"}}

\* the element el was made of the heading node d: a link labelled with a run
\* of d, or a paragraph or heading whose text starts with a run of d
MadeOf(el, d) ==
    \/ el.type = "link" /\ el.attrs.label \in RunTexts(d)
    \/ el.type \in {"paragraph", "heading"} /\ textKey(el.text) \in RunTexts(d)

RuleNodes == {p \in 1..Len(doc.content) : doc.content[p].type \in {"horizontalRule", "DividerBlock"}}

\* C30: a heading node that matches the single-link or the styled-link
\* pattern is emitted as a link or paragraph element, never as a heading
\* element. So when the headings of a document all match, no group is started
\* by a heading (there is at most one group more than there are dividers), no
\* header slot is filled and the level of every group is null.
C30_LinkHeadingIsNoHeading ==
    (pc = "done" /\ TreeShaped) =>
        /\ \A p \in 1..Len(doc.content) :
              LinkHeading(doc.content[p]) =>
                  /\ \E k \in 1..Len(sequence) :
                        /\ MadeOf(sequence[k], doc.content[p])
                        /\ sequence[k].type \in {"link", "paragraph"}
                  /\ \A k \in 1..Len(sequence) :
                        MadeOf(sequence[k], doc.content[p]) => sequence[k].type # "heading"
        /\ (\A p \in 1..Len(doc.content) :
               doc.content[p].type = "heading" => LinkHeading(doc.content[p])) =>
              /\ Len(groups) <= 1 + Cardinality(RuleNodes)
              /\ \A n \in 1..Len(processedGroups) :
                    /\ processedGroups[n].header = EmptyHeader
                    /\ processedGroups[n].metadata.level = NULL
                    /\ processedGroups[n].body.headings = <<>>

\* a paragraph and a heading that is one link were parsed: one group of a
\* paragraph and a link, without title and level
C30_Witness ==
    /\ pc = "done"
    /\ TreeShaped
    /\ Len(doc.content) = 2
    /\ doc.content[1].type = "paragraph"
    /\ LinkHeading(doc.content[2])
    /\ Len(groups) = 1
    /\ Len(groups[1]) = 2
    /\ groups[1][1].type = "paragraph"
    /\ groups[1][2].type \in {"link", "paragraph"}
    /\ processedGroups[1].metadata.level = NULL
    /\ result.title = EMPTY

====
